---- MODULE Spec2Model ----
(***************************************************************************)
(* NexusLink marshalling core: the 16-byte frame header, the two checksum  *)
(* modes, the two marshallers (PythonMarshaller, and the pure Python       *)
(* fallback ZeroOverheadMarshaller), the SecurityValidator and the         *)
(* TopologyManager.                                                        *)
(*                                                                         *)
(* Representation.  A byte is a number 0..255 and a bytes object a         *)
(* sequence of bytes.  An unsigned 32-bit integer is the pair <<hi, lo>>   *)
(* of its 16-bit halves (value hi * 65536 + lo), so that every header      *)
(* field and every digest keeps its full width.  A float64 is the record   *)
(* of its IEEE-754 binary64 fields: sign (1 bit), exponent (11 bits) and   *)
(* fraction (52 bits, as 20 + 16 + 16 bits).  struct and numpy are         *)
(* modelled on a little-endian IEEE-754 platform.                          *)
(***************************************************************************)
EXTENDS Integers, Sequences, FiniteSets, TLC

VARIABLES
  marshaller,   \* the marshaller instance in use: impl, topology_id, marshal_count, error_count
  sent,         \* the values given to marshal_data
  orig,         \* the bytes marshal_data returned
  wire,         \* the bytes given to unmarshal_data
  edit,         \* what happened to the frame between marshal_data and unmarshal_data
  result,       \* what unmarshal_data returned or raised
  phase         \* "idle", "framed" (marshal_data returned), "done" (unmarshal_data returned or raised)

marshalVars == <<marshaller, sent, orig, wire, edit, result, phase>>

VARIABLES
  nodes,          \* TopologyManager._nodes: node_id -> TopologyNode
  lock,           \* TopologyManager._lock: Free or the thread that holds it
  local_node_id,  \* TopologyManager._local_node_id: None or Some(node_id)
  now,            \* the last value time.time() returned
  tpc,            \* where each thread is in its TopologyManager call
  targ,           \* the arguments of each thread's call
  tloc,           \* the local variables of each thread's call
  tret,           \* what each thread's last call returned
  calls,          \* how many TopologyManager calls have been made
  acquired,       \* how many register_node calls have entered the lock
  returned        \* the node_ids register_node has returned: how many, and which

topoVars == <<nodes, lock, local_node_id, now, tpc, targ, tloc, tret, calls, acquired, returned>>

VARIABLES
  topology_counter,  \* PythonMarshaller._topology_counter
  counter_lock,      \* PythonMarshaller._counter_lock: Free or the thread that holds it
  instances,         \* the marshaller objects constructed so far, all alive
  cpc,               \* where each thread is in PythonMarshaller.__init__
  cself,             \* the object each thread is constructing
  cread              \* the counter value each thread has read

ctorVars == <<topology_counter, counter_lock, instances, cpc, cself, cread>>

VARIABLES
  policy,            \* SecurityValidator.policy
  validation_count,  \* SecurityValidator._validation_count
  vpc,               \* "idle", or "called" while a call of the validator is running
  vcall,             \* the last call of the validator: method and arguments
  vret,              \* what that call returned
  twin               \* a second SecurityValidator that is given the same calls: policy, validation_count, vret

valVars == <<policy, validation_count, vpc, vcall, vret, twin>>

VARIABLES
  hfields,           \* the MarshalHeader given to to_bytes
  hbytes,            \* the bytes given to MarshalHeader.from_bytes
  hresult,           \* what from_bytes returned or raised
  hphase             \* "idle", "encoded" (to_bytes returned), "decoded" (from_bytes returned or raised)

codecVars == <<hfields, hbytes, hresult, hphase>>

vars == <<marshalVars, topoVars, ctorVars, valVars, codecVars>>

-----------------------------------------------------------------------------
(* Bounds of the model *)

\* longest input sequence enumerated over Floats
MaxLen == 2

\* longest run of bytes appended after a frame
MaxTrail == 8

\* threads that call one TopologyManager, and calls they make in all
NumThreads == 2
MaxCalls == 3

\* marshaller objects constructed
MaxInstances == 3

\* headers one SecurityValidator accepts
MaxValidations == 2

\* bytes that follow a header given to MarshalHeader.from_bytes
MaxExtra == 2

\* calls and constructions the fairly scheduled threads make in all
MaxLiveCalls == 2

-----------------------------------------------------------------------------
(* Bytes and unsigned 32-bit integers *)

Byte == 0..255

Min(a, b) == IF a < b THEN a ELSE b

\* b[lo:hi] of Python: 0-based, half-open, clamped to the length
Slice(b, lo, hi) == SubSeq(b, lo + 1, Min(hi, Len(b)))

RECURSIVE Repeat(_, _)
Repeat(x, n) == IF n = 0 THEN <<>> ELSE <<x>> \o Repeat(x, n - 1)

RECURSIVE SumBytes(_)
SumBytes(b) == IF b = <<>> THEN 0 ELSE Head(b) + SumBytes(Tail(b))

\* n & 0xFFFFFFFF for 0 <= n < 2^31, as a 32-bit value
Mask32(n) == <<(n \div 65536) % 65536, n % 65536>>

\* the 32-bit value of a small natural number
U32(n) == Mask32(n)

\* the 4 bytes of a 32-bit word, most significant first (the byte order of SHA-256)
WordToBytes(x) == <<x[1] \div 256, x[1] % 256, x[2] \div 256, x[2] % 256>>

\* struct.pack('<I', x)
PackU32(x) == <<x[2] % 256, x[2] \div 256, x[1] % 256, x[1] \div 256>>

\* the 32-bit word of the 4 bytes at 0-based offset off, most significant first
WordFromBytes(b, off) == <<b[off + 1] * 256 + b[off + 2], b[off + 3] * 256 + b[off + 4]>>

\* struct.unpack('<I', b)[0] for the 4 bytes at 0-based offset off
UnpackU32(b, off) == <<b[off + 4] * 256 + b[off + 3], b[off + 2] * 256 + b[off + 1]>>

\* a 32-bit value as a length: exact below 65536, and 65536 stands for every
\* larger value (no bytes object of the model is that long)
AsLen(x) == IF x[1] > 0 THEN 65536 ELSE x[2]

-----------------------------------------------------------------------------
(* float64 and its little-endian IEEE-754 encoding *)

Float(s, e, fh, fm, fl) == [sign |-> s, exponent |-> e, fraction |-> <<fh, fm, fl>>]

\* the 8 bytes of x with sign and exponent first
PackDouble_BigEndian(x) ==
  LET f == x.fraction
  IN  <<x.sign * 128 + (x.exponent \div 16),
        (x.exponent % 16) * 16 + (f[1] \div 65536),
        (f[1] \div 256) % 256, f[1] % 256,
        f[2] \div 256, f[2] % 256,
        f[3] \div 256, f[3] % 256>>

\* struct.pack('<d', x): sign and exponent in the two highest bytes
PackDouble(x) ==
  LET f == x.fraction
  IN  <<f[3] % 256, f[3] \div 256,
        f[2] % 256, f[2] \div 256,
        f[1] % 256, (f[1] \div 256) % 256,
        (x.exponent % 16) * 16 + (f[1] \div 65536),
        x.sign * 128 + (x.exponent \div 16)>>

\* struct.unpack('<d', b)[0] for the 8 bytes at 0-based offset off
UnpackDouble(b, off) ==
  Float(b[off + 8] \div 128,
        (b[off + 8] % 128) * 16 + (b[off + 7] \div 16),
        (b[off + 7] % 16) * 65536 + b[off + 6] * 256 + b[off + 5],
        b[off + 4] * 256 + b[off + 3],
        b[off + 2] * 256 + b[off + 1])

\* struct.pack('<' + 'd' * len(data), *data); numpy's tobytes() of a float64 array
RECURSIVE PackDoubles(_)
PackDoubles(data) ==
  IF data = <<>> THEN <<>> ELSE PackDouble(Head(data)) \o PackDoubles(Tail(data))

\* struct.unpack('<' + 'd' * count, payload); numpy's frombuffer of whole elements
UnpackDoubles(payload, count) == [i \in 1..count |-> UnpackDouble(payload, 8 * (i - 1))]

-----------------------------------------------------------------------------
(* hashlib.sha256: SHA-256 over a sequence of bytes, on 32-bit words <<hi, lo>> *)

Bit(x, i) == (x \div (2 ^ i)) % 2

\* bitwise xor and bitwise and of two bytes, tabulated
XorByte == [a \in Byte |-> [b \in Byte |->
  LET x(i) == ((Bit(a, i) + Bit(b, i)) % 2) * (2 ^ i)
  IN  x(0) + x(1) + x(2) + x(3) + x(4) + x(5) + x(6) + x(7)]]

AndByte == [a \in Byte |-> [b \in Byte |->
  LET x(i) == (Bit(a, i) * Bit(b, i)) * (2 ^ i)
  IN  x(0) + x(1) + x(2) + x(3) + x(4) + x(5) + x(6) + x(7)]]

Xor16(a, b) == 256 * XorByte[a \div 256][b \div 256] + XorByte[a % 256][b % 256]
And16(a, b) == 256 * AndByte[a \div 256][b \div 256] + AndByte[a % 256][b % 256]

Xor32(x, y) == <<Xor16(x[1], y[1]), Xor16(x[2], y[2])>>
And32(x, y) == <<And16(x[1], y[1]), And16(x[2], y[2])>>
Not32(x) == <<65535 - x[1], 65535 - x[2]>>

\* addition modulo 2^32
Add32(x, y) ==
  LET lo == x[2] + y[2]
  IN  <<(x[1] + y[1] + (lo \div 65536)) % 65536, lo % 65536>>

\* rotate right and shift right by n bits, 0 < n < 32 (shift: n < 16)
Rotr32(x, n) ==
  LET hi == IF n >= 16 THEN x[2] ELSE x[1]
      lo == IF n >= 16 THEN x[1] ELSE x[2]
      p  == 2 ^ (n % 16)
      q  == 2 ^ (16 - (n % 16))
  IN  <<(hi \div p) + (lo % p) * q, (lo \div p) + (hi % p) * q>>

Shr32(x, n) ==
  LET p == 2 ^ n
      q == 2 ^ (16 - n)
  IN  <<x[1] \div p, (x[2] \div p) + (x[1] % p) * q>>

BigSigma0(x) == Xor32(Xor32(Rotr32(x, 2), Rotr32(x, 13)), Rotr32(x, 22))
BigSigma1(x) == Xor32(Xor32(Rotr32(x, 6), Rotr32(x, 11)), Rotr32(x, 25))
SmallSigma0(x) == Xor32(Xor32(Rotr32(x, 7), Rotr32(x, 18)), Shr32(x, 3))
SmallSigma1(x) == Xor32(Xor32(Rotr32(x, 17), Rotr32(x, 19)), Shr32(x, 10))
Ch(x, y, z) == Xor32(And32(x, y), And32(Not32(x), z))
Maj(x, y, z) == Xor32(Xor32(And32(x, y), And32(x, z)), And32(y, z))

\* the round constants K[0..63] and the initial hash value H(0) of SHA-256 (FIPS 180-4)
Sha256K ==
  <<<<17034, 12184>>, <<28983, 17553>>, <<46528, 64463>>, <<59829, 56229>>,
    <<14678, 49755>>, <<23025, 4593>>, <<37439, 33444>>, <<43804, 24277>>,
    <<55303, 43672>>, <<4739, 23297>>, <<9265, 34238>>, <<21772, 32195>>,
    <<29374, 23924>>, <<32990, 45566>>, <<39900, 1703>>, <<49563, 61812>>,
    <<58523, 27073>>, <<61374, 18310>>, <<4033, 40390>>, <<9228, 41420>>,
    <<11753, 11375>>, <<19060, 33962>>, <<23728, 43484>>, <<30457, 35034>>,
    <<38974, 20818>>, <<43057, 50797>>, <<45059, 10184>>, <<48985, 32711>>,
    <<50912, 3059>>, <<54695, 37191>>, <<1738, 25425>>, <<5161, 10599>>,
    <<10167, 2693>>, <<11803, 8504>>, <<19756, 28156>>, <<21304, 3347>>,
    <<25866, 29524>>, <<30314, 2747>>, <<33218, 51502>>, <<37490, 11397>>,
    <<41663, 59553>>, <<43034, 26187>>, <<49739, 35696>>, <<51052, 20899>>,
    <<53650, 59417>>, <<54937, 1572>>, <<62478, 13701>>, <<4202, 41072>>,
    <<6564, 49430>>, <<7735, 27656>>, <<10056, 30540>>, <<13488, 48309>>,
    <<14620, 3251>>, <<20184, 43594>>, <<23452, 51791>>, <<26670, 28659>>,
    <<29839, 33518>>, <<30885, 25455>>, <<33992, 30740>>, <<36039, 520>>,
    <<37054, 65530>>, <<42064, 27883>>, <<48889, 41975>>, <<50801, 30962>>>>

Sha256H0 ==
  <<<<27145, 58983>>, <<47975, 44677>>, <<15470, 62322>>, <<42319, 62778>>,
    <<20750, 21119>>, <<39685, 26764>>, <<8067, 55723>>, <<23520, 52505>>>>

\* padding: 0x80, zero bytes up to 56 modulo 64, the bit length as 64 bits big-endian
Sha256Pad(m) ==
  LET bits == 8 * Len(m)
  IN  m \o <<128>> \o Repeat(0, (119 - Len(m)) % 64)
        \o <<0, 0, 0, 0, 0, (bits \div 65536) % 256, (bits \div 256) % 256, bits % 256>>

\* the message schedule W[1..64] of the 64-byte block at 0-based offset off
RECURSIVE Sha256Schedule(_)
Sha256Schedule(W) ==
  IF Len(W) = 64 THEN W
  ELSE LET t == Len(W) + 1
       IN  Sha256Schedule(Append(W,
             Add32(Add32(SmallSigma1(W[t - 2]), W[t - 7]),
                   Add32(SmallSigma0(W[t - 15]), W[t - 16]))))

\* one round on the working variables s = <<a, b, c, d, e, f, g, h>>
Sha256Round(s, k, w) ==
  LET T1 == Add32(Add32(Add32(s[8], BigSigma1(s[5])), Add32(Ch(s[5], s[6], s[7]), k)), w)
      T2 == Add32(BigSigma0(s[1]), Maj(s[1], s[2], s[3]))
  IN  <<Add32(T1, T2), s[1], s[2], s[3], Add32(s[4], T1), s[5], s[6], s[7]>>

\* S holds the working variables before round 1 and after each round so far
RECURSIVE Sha256Rounds(_, _)
Sha256Rounds(S, W) ==
  IF Len(S) = 65 THEN S[65]
  ELSE Sha256Rounds(Append(S, Sha256Round(S[Len(S)], Sha256K[Len(S)], W[Len(S)])), W)

Sha256Compress(h, p, off) ==
  LET W == Sha256Schedule([i \in 1..16 |-> WordFromBytes(p, off + 4 * (i - 1))])
      s == Sha256Rounds(<<h>>, W)
  IN  [i \in 1..8 |-> Add32(h[i], s[i])]

RECURSIVE Sha256Blocks(_, _, _)
Sha256Blocks(h, p, off) ==
  IF off >= Len(p) THEN h ELSE Sha256Blocks(Sha256Compress(h, p, off), p, off + 64)

\* hashlib.sha256(m).digest()[:4]
Sha256Digest4(m) == WordToBytes(Sha256Blocks(Sha256H0, Sha256Pad(m), 0)[1])

-----------------------------------------------------------------------------
(* Header codec: MarshalHeader *)

MarshalHeader(version, payload_size, checksum, topology_id) ==
  [version |-> version, payload_size |-> payload_size,
   checksum |-> checksum, topology_id |-> topology_id]

\* a header that writes its fields in network byte order
HeaderToBytes_BigEndian(h) ==
  WordToBytes(h.version) \o WordToBytes(h.payload_size)
    \o WordToBytes(h.checksum) \o WordToBytes(h.topology_id)

\* MarshalHeader.to_bytes: struct.pack('<IIII', ...)
HeaderToBytes(h) ==
  PackU32(h.version) \o PackU32(h.payload_size)
    \o PackU32(h.checksum) \o PackU32(h.topology_id)

\* MarshalHeader.from_bytes on at least 16 bytes: struct.unpack('<IIII', data[:16])
HeaderFromBytes(data) ==
  MarshalHeader(UnpackU32(data, 0), UnpackU32(data, 4),
                UnpackU32(data, 8), UnpackU32(data, 12))

-----------------------------------------------------------------------------
(* What a call returns or raises *)

NoResult == [kind |-> "none", exc |-> "", msg |-> "", values |-> <<>>]
Return(values) == [kind |-> "return", exc |-> "", msg |-> "", values |-> values]
Raise(exc, msg) == [kind |-> "raise", exc |-> exc, msg |-> msg, values |-> <<>>]

\* The marshallers raise one exception class each (SecurityError, ValueError);
\* the failure is told by its message.  FormatError is a failure the
\* marshaller raises for a malformed, truncated or unsupported-version frame,
\* IntegrityError the one it raises for a checksum mismatch.  An exception that
\* escapes from struct or numpy is neither.
ErrorKind(r) ==
  IF r.kind # "raise" THEN "none"
  ELSE IF r.msg \in {"Invalid marshalled data: too short", "Invalid marshalled data",
                     "Invalid version", "Payload size mismatch"} THEN "FormatError"
  ELSE IF r.msg = "Checksum validation failed" THEN "IntegrityError"
  ELSE "untyped"

-----------------------------------------------------------------------------
(* PythonMarshaller *)

\* PythonMarshaller._compute_checksum: the first 4 bytes of SHA-256 of the
\* packed values, read as a little-endian unsigned 32-bit integer
PyComputeChecksum(data) == UnpackU32(Sha256Digest4(PackDoubles(data)), 0)

\* PythonMarshaller.marshal_data
PyMarshal(self, data) ==
  LET payload == PackDoubles(data)
      header == MarshalHeader(U32(1), U32(Len(payload)), PyComputeChecksum(data),
                              self.topology_id)
  IN  HeaderToBytes(header) \o payload

\* unmarshal_data that returns the values without verifying the checksum
PyUnmarshal_Unverified(marshalled_data) ==
  IF Len(marshalled_data) < 16
  THEN Raise("SecurityError", "Invalid marshalled data: too short")
  ELSE
    LET header == HeaderFromBytes(marshalled_data)
        size == AsLen(header.payload_size)
        payload == Slice(marshalled_data, 16, 16 + size)
        double_count == size \div 8
    IN  IF header.version # U32(1)
        THEN Raise("SecurityError", "Invalid version")
        ELSE IF Len(payload) # size
        THEN Raise("SecurityError", "Payload size mismatch")
        ELSE IF Len(payload) # 8 * double_count
        THEN Raise("struct.error", "unpack requires a buffer of 8 * double_count bytes")
        ELSE Return(UnpackDoubles(payload, double_count))

\* PythonMarshaller.unmarshal_data
PyUnmarshal(marshalled_data) ==
  IF Len(marshalled_data) < 16
  THEN Raise("SecurityError", "Invalid marshalled data: too short")
  ELSE
    LET header == HeaderFromBytes(marshalled_data)
        size == AsLen(header.payload_size)
        payload == Slice(marshalled_data, 16, 16 + size)
        double_count == size \div 8
    IN  IF header.version # U32(1)
        THEN Raise("SecurityError", "Invalid version")
        ELSE IF Len(payload) # size
        THEN Raise("SecurityError", "Payload size mismatch")
        ELSE IF Len(payload) # 8 * double_count
        THEN Raise("struct.error", "unpack requires a buffer of 8 * double_count bytes")
        ELSE LET data == UnpackDoubles(payload, double_count)
             IN  IF header.checksum # PyComputeChecksum(data)
                 THEN Raise("SecurityError", "Checksum validation failed")
                 ELSE Return(data)

-----------------------------------------------------------------------------
(* ZeroOverheadMarshaller, the pure Python fallback *)

\* ZeroOverheadMarshaller.marshal_data: the bytes returned (marshal_count is
\* incremented by the action)
FbMarshal(self, data) ==
  LET payload == PackDoubles(data)
      checksum == Mask32(SumBytes(payload))
  IN  PackU32(U32(1)) \o PackU32(U32(Len(payload))) \o PackU32(checksum)
        \o PackU32(self.topology_id) \o payload

\* unmarshal_data that accepts every version
FbUnmarshal_AnyVersion(marshalled_data) ==
  IF Len(marshalled_data) < 16
  THEN Raise("ValueError", "Invalid marshalled data")
  ELSE
    LET payload == Slice(marshalled_data, 16, Len(marshalled_data))
        checksum == UnpackU32(marshalled_data, 8)
    IN  IF Mask32(SumBytes(payload)) # checksum
        THEN Raise("ValueError", "Checksum validation failed")
        ELSE IF Len(payload) % 8 # 0
        THEN Raise("ValueError", "buffer size must be a multiple of element size")
        ELSE Return(UnpackDoubles(payload, Len(payload) \div 8))

\* unmarshal_data that verifies the truncated SHA-256 digest of the payload
FbUnmarshal_Hashed(marshalled_data) ==
  IF Len(marshalled_data) < 16
  THEN Raise("ValueError", "Invalid marshalled data")
  ELSE
    LET payload == Slice(marshalled_data, 16, Len(marshalled_data))
        checksum == UnpackU32(marshalled_data, 8)
    IN  IF UnpackU32(marshalled_data, 0) # U32(1)
        THEN Raise("ValueError", "Invalid version")
        ELSE IF UnpackU32(Sha256Digest4(payload), 0) # checksum
        THEN Raise("ValueError", "Checksum validation failed")
        ELSE IF Len(payload) % 8 # 0
        THEN Raise("ValueError", "buffer size must be a multiple of element size")
        ELSE Return(UnpackDoubles(payload, Len(payload) \div 8))

\* ZeroOverheadMarshaller.unmarshal_data: what it returns or raises; the three
\* failures it raises itself each increment error_count first
FbUnmarshal(marshalled_data) ==
  IF Len(marshalled_data) < 16
  THEN Raise("ValueError", "Invalid marshalled data")
  ELSE
    LET header == Slice(marshalled_data, 0, 16)
        payload == Slice(marshalled_data, 16, Len(marshalled_data))
        version == UnpackU32(header, 0)
        checksum == UnpackU32(header, 8)
    IN  IF version # U32(1)
        THEN Raise("ValueError", "Invalid version")
        ELSE IF Mask32(SumBytes(payload)) # checksum
        THEN Raise("ValueError", "Checksum validation failed")
        ELSE IF Len(payload) % 8 # 0
        THEN Raise("ValueError", "buffer size must be a multiple of element size")
        ELSE Return(UnpackDoubles(payload, Len(payload) \div 8))

\* error_count that counts every exception, numpy's too
FbCounted_EveryFailure(r) == r.kind = "raise"

\* the failures counted in error_count
FbCounted(r) ==
  r.kind = "raise" /\ r.msg \in {"Invalid marshalled data", "Invalid version",
                                 "Checksum validation failed"}

Max(a, b) == IF a > b THEN a ELSE b

\* ZeroOverheadMarshaller.get_statistics; success_rate is the quotient of the
\* pair <<dividend, divisor>>
FbGetStatistics(self) ==
  [topology_id |-> self.topology_id,
   marshal_count |-> self.marshal_count,
   error_count |-> self.error_count,
   success_rate |-> <<self.marshal_count, Max(self.marshal_count + self.error_count, 1)>>,
   buffer_size |-> self.buffer_size]

-----------------------------------------------------------------------------
(* Inputs of the marshalling operations *)

\* 1.0, 2.5, 3.14159 and -4.7, the values of the command line's --test
One == Float(0, 1023, 0, 0, 0)
TwoAndAHalf == Float(0, 1024, 262144, 0, 0)
Pi5 == Float(0, 1024, 598521, 61467, 34414)
MinusFourSeven == Float(1, 1025, 183500, 52428, 52429)

\* cli.py: test_data = [1.0, 2.5, 3.14159, -4.7]
CliTestData == <<One, TwoAndAHalf, Pi5, MinusFourSeven>>

\* 45218.00000000059, packed 51 00 00 00 40 14 E6 40
Near45218 == Float(0, 1038, 398400, 0, 81)

Zero == Float(0, 0, 0, 0, 0)

Floats == {Zero, Near45218}

SeqsUpTo(S, n) == UNION {[1..k -> S] : k \in 0..n}

Inputs == SeqsUpTo(Floats, MaxLen) \cup {CliTestData}

\* the values a payload byte is overwritten with, the bytes appended after a
\* frame, and the values written over the version field
TamperValues == {0, 103, 255}
TrailBytes == {0, 255}
BadVersions == {<<0, 0>>, <<0, 2>>, <<0, 257>>, <<1, 1>>, <<65535, 65535>>}

\* the values written over the topology_id field: ids of other
\* PythonMarshallers, the id of a fallback marshaller, the least and the
\* greatest value
TopologyIds == {<<0, 0>>, <<0, 1>>, <<0, 2>>, <<4660, 22128>>, <<4660, 22192>>, <<65535, 65535>>}

\* the topology_id of the instance in use: the counter value a PythonMarshaller
\* got, the low 32 bits of the address of a ZeroOverheadMarshaller
PyInstances ==
  {[impl |-> "py", buffer_size |-> 1024, topology_id |-> U32(1),
    marshal_count |-> 0, error_count |-> 0]}
FbInstances ==
  {[impl |-> "fb", buffer_size |-> 1024, topology_id |-> <<4660, 22128>>,
    marshal_count |-> 0, error_count |-> 0]}

-----------------------------------------------------------------------------
(* The marshalling operations as actions: one frame is marshalled, the      *)
(* transport may change it once, and it is unmarshalled                     *)

NoEdit == [kind |-> "none", at |-> 0, to |-> 0]
Edit(kind, at, to) == [kind |-> kind, at |-> at, to |-> to]

MarshalFrame == UNCHANGED <<topoVars, ctorVars, valVars, codecVars>>

Marshal(data) ==
  /\ phase = "idle"
  /\ LET frame == IF marshaller.impl = "py" THEN PyMarshal(marshaller, data)
                  ELSE FbMarshal(marshaller, data)
     IN  /\ orig' = frame
         /\ wire' = frame
  /\ sent' = data
  /\ marshaller' = IF marshaller.impl = "py" THEN marshaller
                   ELSE [marshaller EXCEPT !.marshal_count = @ + 1]
  /\ phase' = "framed"
  /\ UNCHANGED <<edit, result>>
  /\ MarshalFrame

Untouched == phase = "framed" /\ edit = NoEdit

\* one payload byte is overwritten with a different value
TamperPayload(off, v) ==
  /\ Untouched
  /\ off \in 16..(Len(orig) - 1)
  /\ v # orig[off + 1]
  /\ wire' = [orig EXCEPT ![off + 1] = v]
  /\ edit' = Edit("tamper", off, v)
  /\ UNCHANGED <<marshaller, sent, orig, result, phase>>
  /\ MarshalFrame

\* only the first k bytes arrive
Truncate(k) ==
  /\ Untouched
  /\ k \in 0..(Len(orig) - 1)
  /\ wire' = Slice(orig, 0, k)
  /\ edit' = Edit("truncate", k, 0)
  /\ UNCHANGED <<marshaller, sent, orig, result, phase>>
  /\ MarshalFrame

\* n bytes b follow the frame
AppendTrailing(n, b) ==
  /\ Untouched
  /\ wire' = orig \o Repeat(b, n)
  /\ edit' = Edit("append", n, b)
  /\ UNCHANGED <<marshaller, sent, orig, result, phase>>
  /\ MarshalFrame

\* the version field is rewritten, the rest of the frame stays valid
SetVersion(v) ==
  /\ Untouched
  /\ wire' = PackU32(v) \o Slice(orig, 4, Len(orig))
  /\ edit' = Edit("version", 0, v)
  /\ UNCHANGED <<marshaller, sent, orig, result, phase>>
  /\ MarshalFrame

\* bytes 12..15, the topology_id field, are rewritten to another value: the
\* frame another instance makes of the same values
SetTopologyId(v) ==
  /\ Untouched
  /\ v # UnpackU32(orig, 12)
  /\ wire' = Slice(orig, 0, 12) \o PackU32(v) \o Slice(orig, 16, Len(orig))
  /\ edit' = Edit("topology", 12, v)
  /\ UNCHANGED <<marshaller, sent, orig, result, phase>>
  /\ MarshalFrame

\* the checksum the marshaller in use writes for a payload
ChecksumOf(impl, payload) ==
  IF impl = "py" THEN UnpackU32(Sha256Digest4(payload), 0) ELSE Mask32(SumBytes(payload))

\* a frame is forged with the first k payload bytes and payload_size = k; its
\* checksum is the original one, or the one of the k bytes
Resize(k, fix) ==
  /\ Untouched
  /\ k \in 0..(Len(orig) - 17)
  /\ LET payload == Slice(orig, 16, 16 + k)
         checksum == IF fix THEN ChecksumOf(marshaller.impl, payload)
                     ELSE UnpackU32(orig, 8)
     IN  wire' = Slice(orig, 0, 4) \o PackU32(U32(k)) \o PackU32(checksum)
                   \o Slice(orig, 12, 16) \o payload
  /\ edit' = Edit("resize", k, IF fix THEN 1 ELSE 0)
  /\ UNCHANGED <<marshaller, sent, orig, result, phase>>
  /\ MarshalFrame

\* an unmarshal_data that accepts only the frames of its own instance
Unmarshal_OwnFramesOnly ==
  /\ phase = "framed"
  /\ LET r == IF Len(wire) >= 16 /\ UnpackU32(wire, 12) # marshaller.topology_id
              THEN Raise("SecurityError", "Invalid topology id")
              ELSE IF marshaller.impl = "py" THEN PyUnmarshal(wire) ELSE FbUnmarshal(wire)
     IN  /\ result' = r
         /\ marshaller' = IF marshaller.impl = "fb" /\ FbCounted(r)
                          THEN [marshaller EXCEPT !.error_count = @ + 1]
                          ELSE marshaller
  /\ phase' = "done"
  /\ UNCHANGED <<sent, orig, wire, edit>>
  /\ MarshalFrame

Unmarshal ==
  /\ phase = "framed"
  /\ LET r == IF marshaller.impl = "py" THEN PyUnmarshal(wire) ELSE FbUnmarshal(wire)
     IN  /\ result' = r
         /\ marshaller' = IF marshaller.impl = "fb" /\ FbCounted(r)
                          THEN [marshaller EXCEPT !.error_count = @ + 1]
                          ELSE marshaller
  /\ phase' = "done"
  /\ UNCHANGED <<sent, orig, wire, edit>>
  /\ MarshalFrame

MarshalInit ==
  /\ marshaller \in PyInstances \cup FbInstances
  /\ sent = <<>>
  /\ orig = <<>>
  /\ wire = <<>>
  /\ edit = NoEdit
  /\ result = NoResult
  /\ phase = "idle"

MarshalNext ==
  \/ \E data \in Inputs : Marshal(data)
  \/ \E off \in 16..(16 + 8 * (MaxLen + 4)), v \in TamperValues : TamperPayload(off, v)
  \/ \E k \in 0..(16 + 8 * (MaxLen + 4)) : Truncate(k)
  \/ \E n \in 1..MaxTrail, b \in TrailBytes : AppendTrailing(n, b)
  \/ \E v \in BadVersions : SetVersion(v)
  \/ \E k \in 0..(8 * (MaxLen + 4)), fix \in BOOLEAN : Resize(k, fix)
  \/ \E v \in TopologyIds : SetTopologyId(v)
  \/ Unmarshal

-----------------------------------------------------------------------------
(* TopologyManager, called by concurrent threads *)

Threads == 1..NumThreads

None == <<>>
Some(x) == <<x>>

\* _lock is free, or held by one thread
Free == 0

\* node_type: str = "python"
NodeTypes == {"python"}

\* the values time.time() returns
Times == 0..1

\* the node_ids update_heartbeat is called with: registered or not
HeartbeatIds == 0..(MaxCalls + 1)

\* a node that is registered as OFFLINE until its first heartbeat
TopologyNode_Offline(node_id, node_type, last_heartbeat) ==
  [node_id |-> node_id, node_type |-> node_type, last_heartbeat |-> last_heartbeat,
   marshal_operations |-> 0, state |-> "OFFLINE"]

\* TopologyNode(node_id, node_type, last_heartbeat): marshal_operations and
\* state take their defaults
TopologyNode(node_id, node_type, last_heartbeat) ==
  [node_id |-> node_id, node_type |-> node_type, last_heartbeat |-> last_heartbeat,
   marshal_operations |-> 0, state |-> "ACTIVE"]

\* a lock that every thread may enter at any time
CanAcquire_NoExclusion(t) == TRUE

\* with self._lock: the reentrant lock is free or held by the caller
CanAcquire(t) == lock \in {Free, t}

\* a with block that leaves the lock with its holder
Released_Held(t) == lock

\* leaving the with block
Released(t) == IF lock = t THEN Free ELSE lock

\* time.time(): the clock never runs backwards
TimeNow(time) == time \in Times /\ time >= now

NoArgs == [node_type |-> "", node_id |-> 0]
NoLocals == [ticket |-> 0, node_id |-> 0, active_count |-> 0]
Returned(op, value, ticket) == [op |-> op, value |-> value, ticket |-> ticket]

TopoIdle(t) == tpc[t] = "idle" /\ calls < MaxCalls

TopoFrame == UNCHANGED <<marshalVars, ctorVars, valVars, codecVars>>

\* a thread calls a method of the manager
TopoCall(t, method, args) ==
  /\ TopoIdle(t)
  /\ tpc' = [tpc EXCEPT ![t] = method]
  /\ targ' = [targ EXCEPT ![t] = args]
  /\ calls' = calls + 1
  /\ UNCHANGED <<nodes, lock, local_node_id, now, tloc, tret, acquired, returned>>
  /\ TopoFrame

\* a thread's call returns
TopoReturn(t, r) ==
  /\ tret' = [tret EXCEPT ![t] = r]
  /\ tloc' = [tloc EXCEPT ![t] = NoLocals]
  /\ targ' = [targ EXCEPT ![t] = NoArgs]
  /\ tpc' = [tpc EXCEPT ![t] = "idle"]

\* register_node(node_type) is called
RegisterCall(t, node_type) ==
  TopoCall(t, "register", [node_type |-> node_type, node_id |-> 0])

\* with self._lock:
RegisterAcquire(t) ==
  /\ tpc[t] = "register"
  /\ CanAcquire(t)
  /\ lock' = t
  /\ acquired' = acquired + 1
  /\ tloc' = [tloc EXCEPT ![t].ticket = acquired + 1]
  /\ tpc' = [tpc EXCEPT ![t] = "register_id"]
  /\ UNCHANGED <<nodes, local_node_id, now, targ, tret, calls, returned>>
  /\ TopoFrame

\* node_id = len(self._nodes) + 1
RegisterNodeId(t) ==
  /\ tpc[t] = "register_id"
  /\ tloc' = [tloc EXCEPT ![t].node_id = Cardinality(DOMAIN nodes) + 1]
  /\ tpc' = [tpc EXCEPT ![t] = "register_store"]
  /\ UNCHANGED <<nodes, lock, local_node_id, now, targ, tret, calls, acquired, returned>>
  /\ TopoFrame

\* node = TopologyNode(...); self._nodes[node_id] = node
RegisterStore(t) ==
  /\ tpc[t] = "register_store"
  /\ \E time \in Times :
       /\ TimeNow(time)
       /\ now' = time
       /\ nodes' = [id \in DOMAIN nodes \cup {tloc[t].node_id} |->
                      IF id = tloc[t].node_id
                      THEN TopologyNode(tloc[t].node_id, targ[t].node_type, time)
                      ELSE nodes[id]]
  /\ tpc' = [tpc EXCEPT ![t] = "register_local"]
  /\ UNCHANGED <<lock, local_node_id, targ, tloc, tret, calls, acquired, returned>>
  /\ TopoFrame

\* a registration that always takes over the local identity
RegisterLocal_Latest(t) ==
  /\ tpc[t] = "register_local"
  /\ local_node_id' = Some(tloc[t].node_id)
  /\ tpc' = [tpc EXCEPT ![t] = "register_return"]
  /\ UNCHANGED <<nodes, lock, now, targ, tloc, tret, calls, acquired, returned>>
  /\ TopoFrame

\* if self._local_node_id is None: self._local_node_id = node_id
RegisterLocal(t) ==
  /\ tpc[t] = "register_local"
  /\ local_node_id' = IF local_node_id = None THEN Some(tloc[t].node_id) ELSE local_node_id
  /\ tpc' = [tpc EXCEPT ![t] = "register_return"]
  /\ UNCHANGED <<nodes, lock, now, targ, tloc, tret, calls, acquired, returned>>
  /\ TopoFrame

\* return node_id, leaving the with block
RegisterReturn(t) ==
  /\ tpc[t] = "register_return"
  /\ TopoReturn(t, Returned("register_node", tloc[t].node_id, tloc[t].ticket))
  /\ returned' = [count |-> returned.count + 1,
                  ids |-> returned.ids \cup {tloc[t].node_id}]
  /\ lock' = Released(t)
  /\ UNCHANGED <<nodes, local_node_id, now, calls, acquired>>
  /\ TopoFrame

\* update_heartbeat(node_id) is called
HeartbeatCall(t, node_id) ==
  TopoCall(t, "heartbeat", [node_type |-> "", node_id |-> node_id])

\* with self._lock:
HeartbeatAcquire(t) ==
  /\ tpc[t] = "heartbeat"
  /\ CanAcquire(t)
  /\ lock' = t
  /\ tpc' = [tpc EXCEPT ![t] = "heartbeat_update"]
  /\ UNCHANGED <<nodes, local_node_id, now, targ, tloc, tret, calls, acquired, returned>>
  /\ TopoFrame

\* a heartbeat that creates the node when the id is unknown
HeartbeatUpdate_Upsert(t) ==
  /\ tpc[t] = "heartbeat_update"
  /\ \E time \in Times :
       /\ TimeNow(time)
       /\ now' = time
       /\ nodes' = [id \in DOMAIN nodes \cup {targ[t].node_id} |->
                      IF id = targ[t].node_id
                      THEN TopologyNode(id, "python", time)
                      ELSE nodes[id]]
  /\ tpc' = [tpc EXCEPT ![t] = "heartbeat_return"]
  /\ UNCHANGED <<lock, local_node_id, targ, tloc, tret, calls, acquired, returned>>
  /\ TopoFrame

\* if node_id in self._nodes: self._nodes[node_id].last_heartbeat = time.time()
HeartbeatUpdate(t) ==
  /\ tpc[t] = "heartbeat_update"
  /\ IF targ[t].node_id \in DOMAIN nodes
     THEN \E time \in Times :
            /\ TimeNow(time)
            /\ now' = time
            /\ nodes' = [nodes EXCEPT ![targ[t].node_id].last_heartbeat = time]
     ELSE UNCHANGED <<nodes, now>>
  /\ tpc' = [tpc EXCEPT ![t] = "heartbeat_return"]
  /\ UNCHANGED <<lock, local_node_id, targ, tloc, tret, calls, acquired, returned>>
  /\ TopoFrame

\* leaving the with block; the method returns None
HeartbeatReturn(t) ==
  /\ tpc[t] = "heartbeat_return"
  /\ TopoReturn(t, Returned("update_heartbeat", None, 0))
  /\ lock' = Released(t)
  /\ UNCHANGED <<nodes, local_node_id, now, calls, acquired, returned>>
  /\ TopoFrame

\* a summary that reads the registry without taking the lock
SummaryAcquire_NoLock(t) ==
  /\ tpc[t] = "summary"
  /\ tpc' = [tpc EXCEPT ![t] = "summary_count"]
  /\ UNCHANGED <<nodes, lock, local_node_id, now, targ, tloc, tret, calls, acquired,
                 returned>>
  /\ TopoFrame

\* get_topology_summary() is called
SummaryCall(t) == TopoCall(t, "summary", NoArgs)

\* with self._lock:
SummaryAcquire(t) ==
  /\ tpc[t] = "summary"
  /\ CanAcquire(t)
  /\ lock' = t
  /\ tpc' = [tpc EXCEPT ![t] = "summary_count"]
  /\ UNCHANGED <<nodes, local_node_id, now, targ, tloc, tret, calls, acquired, returned>>
  /\ TopoFrame

\* active_count = sum(1 for n in self._nodes.values() if n.state == NodeState.ACTIVE)
SummaryCount(t) ==
  /\ tpc[t] = "summary_count"
  /\ tloc' = [tloc EXCEPT ![t].active_count =
                Cardinality({id \in DOMAIN nodes : nodes[id].state = "ACTIVE"})]
  /\ tpc' = [tpc EXCEPT ![t] = "summary_return"]
  /\ UNCHANGED <<nodes, lock, local_node_id, now, targ, tret, calls, acquired, returned>>
  /\ TopoFrame

\* return {"total_nodes": ..., "active_nodes": ..., "local_node_id": ...}
SummaryReturn(t) ==
  /\ tpc[t] = "summary_return"
  /\ TopoReturn(t, Returned("get_topology_summary",
                            [total_nodes |-> Cardinality(DOMAIN nodes),
                             active_nodes |-> tloc[t].active_count,
                             local_node_id |-> local_node_id], 0))
  /\ lock' = Released(t)
  /\ UNCHANGED <<nodes, local_node_id, now, calls, acquired, returned>>
  /\ TopoFrame

\* get_local_node_id(): reads the field without the lock
GetLocalNodeId(t) ==
  /\ TopoIdle(t)
  /\ tret' = [tret EXCEPT ![t] = Returned("get_local_node_id", local_node_id, 0)]
  /\ calls' = calls + 1
  /\ UNCHANGED <<nodes, lock, local_node_id, now, tpc, targ, tloc, acquired, returned>>
  /\ TopoFrame

TopoInit ==
  /\ nodes = <<>>
  /\ lock = Free
  /\ local_node_id = None
  /\ now = 0
  /\ tpc = [t \in Threads |-> "idle"]
  /\ targ = [t \in Threads |-> NoArgs]
  /\ tloc = [t \in Threads |-> NoLocals]
  /\ tret = [t \in Threads |-> Returned("", None, 0)]
  /\ calls = 0
  /\ acquired = 0
  /\ returned = [count |-> 0, ids |-> {}]

TopoNext ==
  \/ \E t \in Threads, node_type \in NodeTypes : RegisterCall(t, node_type)
  \/ \E t \in Threads : RegisterAcquire(t)
  \/ \E t \in Threads : RegisterNodeId(t)
  \/ \E t \in Threads : RegisterStore(t)
  \/ \E t \in Threads : RegisterLocal(t)
  \/ \E t \in Threads : RegisterReturn(t)
  \/ \E t \in Threads, node_id \in HeartbeatIds : HeartbeatCall(t, node_id)
  \/ \E t \in Threads : HeartbeatAcquire(t)
  \/ \E t \in Threads : HeartbeatUpdate(t)
  \/ \E t \in Threads : HeartbeatReturn(t)
  \/ \E t \in Threads : SummaryCall(t)
  \/ \E t \in Threads : SummaryAcquire(t)
  \/ \E t \in Threads : SummaryCount(t)
  \/ \E t \in Threads : SummaryReturn(t)
  \/ \E t \in Threads : GetLocalNodeId(t)

-----------------------------------------------------------------------------
(* Construction of marshallers by concurrent threads *)

\* the addresses CPython gives to objects that are alive together: 64 bits,
\* as the pair <<high, low>> of 32-bit values
AddressHighs == {<<0, 32565>>, <<0, 32566>>}
AddressLows == {<<4660, 22128>>, <<4660, 22192>>}
Addresses == AddressHighs \X AddressLows

\* initial_size: int = 1024
InitialSizes == {1024}

\* id(self): an address no other live object has
Live == {instances[i].addr : i \in DOMAIN instances}
FreshAddress(addr) == addr \in Addresses \ Live

\* id(self) & 0xFFFFFFFF
IdMasked(addr) == addr[2]

\* with PythonMarshaller._counter_lock: threading.Lock is not reentrant
CounterLockFree == counter_lock = Free

CtorIdle(t) == cpc[t] = "idle" /\ Len(instances) < MaxInstances

CtorFrame == UNCHANGED <<marshalVars, topoVars, valVars, codecVars>>

\* PythonMarshaller(initial_size): self.buffer_size = initial_size
PyInitCall(t, addr, initial_size) ==
  /\ CtorIdle(t)
  /\ FreshAddress(addr)
  /\ instances' = Append(instances,
                         [impl |-> "py", addr |-> addr, buffer_size |-> initial_size,
                          topology_id |-> None, marshal_count |-> None,
                          error_count |-> None])
  /\ cself' = [cself EXCEPT ![t] = Len(instances) + 1]
  /\ cpc' = [cpc EXCEPT ![t] = "py_lock"]
  /\ UNCHANGED <<topology_counter, counter_lock, cread>>
  /\ CtorFrame

\* with PythonMarshaller._counter_lock:
PyInitAcquire(t) ==
  /\ cpc[t] = "py_lock"
  /\ CounterLockFree
  /\ counter_lock' = t
  /\ cpc' = [cpc EXCEPT ![t] = "py_read"]
  /\ UNCHANGED <<topology_counter, instances, cself, cread>>
  /\ CtorFrame

\* PythonMarshaller._topology_counter += 1: the read
PyInitRead(t) ==
  /\ cpc[t] = "py_read"
  /\ cread' = [cread EXCEPT ![t] = topology_counter]
  /\ cpc' = [cpc EXCEPT ![t] = "py_write"]
  /\ UNCHANGED <<topology_counter, counter_lock, instances, cself>>
  /\ CtorFrame

\* PythonMarshaller._topology_counter += 1: the write
PyInitWrite(t) ==
  /\ cpc[t] = "py_write"
  /\ topology_counter' = cread[t] + 1
  /\ cpc' = [cpc EXCEPT ![t] = "py_assign"]
  /\ UNCHANGED <<counter_lock, instances, cself, cread>>
  /\ CtorFrame

\* self.topology_id = PythonMarshaller._topology_counter, leaving the with block
PyInitAssign(t) ==
  /\ cpc[t] = "py_assign"
  /\ instances' = [instances EXCEPT ![cself[t]].topology_id = Some(U32(topology_counter))]
  /\ counter_lock' = IF counter_lock = t THEN Free ELSE counter_lock
  /\ cpc' = [cpc EXCEPT ![t] = "idle"]
  /\ cself' = [cself EXCEPT ![t] = 0]
  /\ cread' = [cread EXCEPT ![t] = 0]
  /\ UNCHANGED <<topology_counter>>
  /\ CtorFrame

\* ZeroOverheadMarshaller(initial_size): it touches no shared state
FbInit(t, addr, initial_size) ==
  /\ CtorIdle(t)
  /\ FreshAddress(addr)
  /\ instances' = Append(instances,
                         [impl |-> "fb", addr |-> addr, buffer_size |-> initial_size,
                          topology_id |-> Some(IdMasked(addr)), marshal_count |-> Some(0),
                          error_count |-> Some(0)])
  /\ UNCHANGED <<topology_counter, counter_lock, cpc, cself, cread>>
  /\ CtorFrame

CtorInit ==
  /\ topology_counter = 0
  /\ counter_lock = Free
  /\ instances = <<>>
  /\ cpc = [t \in Threads |-> "idle"]
  /\ cself = [t \in Threads |-> 0]
  /\ cread = [t \in Threads |-> 0]

CtorNext ==
  \/ \E t \in Threads, addr \in Addresses, initial_size \in InitialSizes :
       PyInitCall(t, addr, initial_size)
  \/ \E t \in Threads : PyInitAcquire(t)
  \/ \E t \in Threads : PyInitRead(t)
  \/ \E t \in Threads : PyInitWrite(t)
  \/ \E t \in Threads : PyInitAssign(t)
  \/ \E t \in Threads, addr \in Addresses, initial_size \in InitialSizes :
       FbInit(t, addr, initial_size)

-----------------------------------------------------------------------------
(* SecurityValidator *)

ValidationLevel == {"BASIC", "STANDARD", "ENHANCED"}
ValidationResult == {"VALID", "INVALID_CHECKSUM", "INVALID_FORMAT"}

\* ValidationLevel.value
LevelValue(level) ==
  CASE level = "BASIC" -> "basic"
    [] level = "STANDARD" -> "standard"
    [] level = "ENHANCED" -> "enhanced"

SecurityPolicy(level, max_age_seconds) ==
  [level |-> level, max_age_seconds |-> max_age_seconds]

\* SecurityPolicy(): level STANDARD, max_age_seconds 3600
DefaultPolicy == SecurityPolicy("STANDARD", 3600)

Policies == {SecurityPolicy(level, 3600) : level \in ValidationLevel}

\* the same policy with another max_age_seconds
OtherAge(self_policy) == SecurityPolicy(self_policy.level, 0)

\* validate_header that also wants a payload_size that is a multiple of 8
ValidateHeader_SizeChecked(header_data) ==
  IF Len(header_data) # 16 THEN "INVALID_FORMAT"
  ELSE IF HeaderFromBytes(header_data).version # U32(1) THEN "INVALID_FORMAT"
  ELSE IF HeaderFromBytes(header_data).payload_size[2] % 8 # 0 THEN "INVALID_FORMAT"
  ELSE "VALID"

\* validate_header: what it returns
ValidateHeader(header_data) ==
  IF Len(header_data) # 16 THEN "INVALID_FORMAT"
  ELSE IF HeaderFromBytes(header_data).version # U32(1) THEN "INVALID_FORMAT"
  ELSE "VALID"

\* validate_payload that hashes the bytes under every policy
ValidatePayload_HashOnly(self_policy, payload_data, expected_checksum) ==
  IF UnpackU32(Sha256Digest4(payload_data), 0) # expected_checksum
  THEN "INVALID_CHECKSUM" ELSE "VALID"

\* validate_payload that rejects everything when max_age_seconds is 0
ValidatePayload_MaxAge(self_policy, payload_data, expected_checksum) ==
  IF self_policy.max_age_seconds = 0 THEN "INVALID_CHECKSUM"
  ELSE IF self_policy.level = "BASIC"
  THEN (IF Mask32(SumBytes(payload_data)) # expected_checksum
        THEN "INVALID_CHECKSUM" ELSE "VALID")
  ELSE (IF UnpackU32(Sha256Digest4(payload_data), 0) # expected_checksum
        THEN "INVALID_CHECKSUM" ELSE "VALID")

\* validate_payload that sums the bytes under every policy
ValidatePayload_SumOnly(self_policy, payload_data, expected_checksum) ==
  IF Mask32(SumBytes(payload_data)) # expected_checksum THEN "INVALID_CHECKSUM" ELSE "VALID"

\* validate_payload
ValidatePayload(self_policy, payload_data, expected_checksum) ==
  LET computed == IF self_policy.level = "BASIC"
                  THEN Mask32(SumBytes(payload_data))
                  ELSE UnpackU32(Sha256Digest4(payload_data), 0)
  IN  IF computed # expected_checksum THEN "INVALID_CHECKSUM" ELSE "VALID"

\* the float64 2.000000598946677, bytes B0 A6 63 50 00 00 00 40
NearTwo == Float(0, 1024, 0, 20579, 42672)

\* the payloads validate_payload is called with
Payloads ==
  {<<>>, PackDoubles(<<Zero>>), PackDoubles(<<Near45218>>), PackDoubles(<<NearTwo>>),
   PackDoubles(CliTestData)}

\* who computed the checksum validate_payload is called with: the fallback
\* marshaller (byte sum), PythonMarshaller (truncated SHA-256), or neither
ChecksumModes == {"fb", "py", "none"}

ExpectedChecksum(mode, payload_data) ==
  IF mode = "none" THEN U32(1) ELSE ChecksumOf(mode, payload_data)

\* the bytes validate_header is called with
GoodHeader == HeaderToBytes(MarshalHeader(U32(1), U32(8), U32(0), U32(1)))
HeaderInputs ==
  {GoodHeader,
   HeaderToBytes(MarshalHeader(U32(1), U32(3), <<65535, 65535>>, U32(7))),
   HeaderToBytes(MarshalHeader(U32(2), U32(8), U32(0), U32(1))),
   HeaderToBytes(MarshalHeader(U32(65536), U32(0), U32(0), U32(1))),
   Slice(GoodHeader, 0, 15), GoodHeader \o <<0>>, <<>>}

NoCall == [op |-> "", data |-> <<>>, mode |-> "", expected |-> U32(0)]

ValFrame == UNCHANGED <<marshalVars, topoVars, ctorVars, codecVars>>

\* validate_header(header_data) is called
ValidateHeaderCall(header_data) ==
  /\ vpc = "idle"
  /\ validation_count < MaxValidations
  /\ vcall' = [op |-> "validate_header", data |-> header_data, mode |-> "",
               expected |-> U32(0)]
  /\ vpc' = "called"
  /\ UNCHANGED <<policy, validation_count, vret, twin>>
  /\ ValFrame

\* a validate_header that counts every call, whatever it returns
ValidateHeaderReturn_CountAll ==
  /\ vpc = "called" /\ vcall.op = "validate_header"
  /\ vret' = ValidateHeader(vcall.data)
  /\ validation_count' = validation_count + 1
  /\ twin' = [twin EXCEPT !.vret = ValidateHeader(vcall.data), !.validation_count = @ + 1]
  /\ vpc' = "idle"
  /\ UNCHANGED <<policy, vcall>>
  /\ ValFrame

\* validate_header runs and returns
ValidateHeaderReturn ==
  /\ vpc = "called" /\ vcall.op = "validate_header"
  /\ LET r == ValidateHeader(vcall.data)
     IN  /\ vret' = r
         /\ validation_count' = IF r = "VALID" THEN validation_count + 1
                                ELSE validation_count
         /\ twin' = [twin EXCEPT !.vret = r,
                                 !.validation_count = IF r = "VALID" THEN @ + 1 ELSE @]
  /\ vpc' = "idle"
  /\ UNCHANGED <<policy, vcall>>
  /\ ValFrame

\* validate_payload(payload_data, expected_checksum) is called
ValidatePayloadCall(payload_data, mode) ==
  /\ vpc = "idle"
  /\ vcall' = [op |-> "validate_payload", data |-> payload_data, mode |-> mode,
               expected |-> ExpectedChecksum(mode, payload_data)]
  /\ vpc' = "called"
  /\ UNCHANGED <<policy, validation_count, vret, twin>>
  /\ ValFrame

\* validate_payload runs and returns
ValidatePayloadReturn ==
  /\ vpc = "called" /\ vcall.op = "validate_payload"
  /\ vret' = ValidatePayload(policy, vcall.data, vcall.expected)
  /\ twin' = [twin EXCEPT !.vret = ValidatePayload(twin.policy, vcall.data, vcall.expected)]
  /\ vpc' = "idle"
  /\ UNCHANGED <<policy, validation_count, vcall>>
  /\ ValFrame

\* get_statistics()
GetStatistics ==
  /\ vpc = "idle"
  /\ vcall' = [NoCall EXCEPT !.op = "get_statistics"]
  /\ vret' = [validation_count |-> validation_count,
              security_level |-> LevelValue(policy.level)]
  /\ twin' = [twin EXCEPT !.vret = [validation_count |-> twin.validation_count,
                                    security_level |-> LevelValue(twin.policy.level)]]
  /\ UNCHANGED <<policy, validation_count, vpc>>
  /\ ValFrame

\* SecurityValidator(policy)
ValInit(policies) ==
  /\ policy \in policies
  /\ validation_count = 0
  /\ vpc = "idle"
  /\ vcall = NoCall
  /\ vret = ""
  /\ twin = [policy |-> OtherAge(policy), validation_count |-> 0, vret |-> ""]

ValNext ==
  \/ \E header_data \in HeaderInputs : ValidateHeaderCall(header_data)
  \/ ValidateHeaderReturn
  \/ \E payload_data \in Payloads, mode \in ChecksumModes :
       ValidatePayloadCall(payload_data, mode)
  \/ ValidatePayloadReturn
  \/ GetStatistics

-----------------------------------------------------------------------------
(* MarshalHeader.to_bytes and MarshalHeader.from_bytes on their own *)

\* the values of a header field: the least, 1 and the greatest
FieldValues == {<<0, 0>>, <<0, 1>>, <<65535, 65535>>}

Headers ==
  {MarshalHeader(version, payload_size, checksum, topology_id) :
     version \in FieldValues, payload_size \in FieldValues,
     checksum \in FieldValues, topology_id \in FieldValues}

\* the bytes that may follow the 16 bytes of a header
ExtraBytes == {0, 255}

\* MarshalHeader.from_bytes on any bytes: struct.unpack('<IIII', data[:16])
\* raises struct.error unless data[:16] is 16 bytes long
MarshalHeaderFromBytes(data) ==
  LET head == Slice(data, 0, 16)
  IN  IF Len(head) # 16
      THEN Raise("struct.error", "unpack requires a buffer of 16 bytes")
      ELSE Return(HeaderFromBytes(head))

CodecFrame == UNCHANGED <<marshalVars, topoVars, ctorVars, valVars>>

\* header.to_bytes()
HeaderEncode(header) ==
  /\ hphase = "idle"
  /\ hfields' = header
  /\ hbytes' = HeaderToBytes(header)
  /\ hphase' = "encoded"
  /\ UNCHANGED <<hresult>>
  /\ CodecFrame

\* the caller keeps the first k bytes only
HeaderCut(k) ==
  /\ hphase = "encoded" /\ Len(hbytes) = 16 /\ k < 16
  /\ hbytes' = Slice(hbytes, 0, k)
  /\ UNCHANGED <<hfields, hresult, hphase>>
  /\ CodecFrame

\* the caller passes the header with n more bytes after it
HeaderExtend(n, b) ==
  /\ hphase = "encoded" /\ Len(hbytes) = 16
  /\ hbytes' = hbytes \o Repeat(b, n)
  /\ UNCHANGED <<hfields, hresult, hphase>>
  /\ CodecFrame

\* MarshalHeader.from_bytes(data)
HeaderDecode ==
  /\ hphase = "encoded"
  /\ hresult' = MarshalHeaderFromBytes(hbytes)
  /\ hphase' = "decoded"
  /\ UNCHANGED <<hfields, hbytes>>
  /\ CodecFrame

CodecInit ==
  /\ hfields = MarshalHeader(U32(1), U32(0), U32(0), U32(0))
  /\ hbytes = <<>>
  /\ hresult = NoResult
  /\ hphase = "idle"

CodecNext ==
  \/ \E header \in Headers : HeaderEncode(header)
  \/ \E k \in 0..15 : HeaderCut(k)
  \/ \E n \in 1..MaxExtra, b \in ExtraBytes : HeaderExtend(n, b)
  \/ HeaderDecode

-----------------------------------------------------------------------------
(* Threads that call the TopologyManager and construct PythonMarshallers,   *)
(* under fair scheduling                                                    *)

\* a thread runs one call at a time
ThreadFree(t) == tpc[t] = "idle" /\ cpc[t] = "idle"

\* the calls made in all, of either kind
LiveBudget == calls + Len(instances) < MaxLiveCalls

\* the node_ids update_heartbeat is called with: the first node, and none
LiveHeartbeatIds == {0, 1}

\* the address of the next PythonMarshaller
LiveAddress(addr) == addr = CHOOSE a \in Addresses : FreshAddress(a)

\* a thread starts a call
LiveCall(t) ==
  /\ ThreadFree(t)
  /\ LiveBudget
  /\ \/ \E node_type \in NodeTypes : RegisterCall(t, node_type)
     \/ \E node_id \in LiveHeartbeatIds : HeartbeatCall(t, node_id)
     \/ SummaryCall(t)
     \/ \E addr \in Addresses, initial_size \in InitialSizes :
          LiveAddress(addr) /\ PyInitCall(t, addr, initial_size)

\* with self._lock: / with PythonMarshaller._counter_lock: the thread waits
\* until it can take the lock
LockAcquire(t) ==
  \/ RegisterAcquire(t)
  \/ HeartbeatAcquire(t)
  \/ SummaryAcquire(t)
  \/ PyInitAcquire(t)

\* the statements of a guarded section, and leaving it
LockedStep(t) ==
  \/ RegisterNodeId(t)
  \/ RegisterStore(t)
  \/ RegisterLocal(t)
  \/ RegisterReturn(t)
  \/ HeartbeatUpdate(t)
  \/ HeartbeatReturn(t)
  \/ SummaryCount(t)
  \/ SummaryReturn(t)
  \/ PyInitRead(t)
  \/ PyInitWrite(t)
  \/ PyInitAssign(t)

LiveNext ==
  \/ \E t \in Threads : LiveCall(t)
  \/ \E t \in Threads : LockAcquire(t)
  \/ \E t \in Threads : LockedStep(t)

\* Every thread that can run is eventually run, and a thread that waits for
\* a lock that is free again and again eventually takes it.
LiveFairness ==
  \A t \in Threads : WF_vars(LockedStep(t)) /\ SF_vars(LockAcquire(t))

-----------------------------------------------------------------------------
(* Frames of the fallback marshaller whose payload bytes are reordered,     *)
(* given to validate_payload and to unmarshal_data                          *)

\* SecurityPolicy(level=ValidationLevel.BASIC)
BasicPolicy == SecurityPolicy("BASIC", 3600)

\* b with the bytes at 0-based offsets i and j exchanged
SwapBytes(b, i, j) == [b EXCEPT ![i + 1] = b[j + 1], ![j + 1] = b[i + 1]]

\* b[::-1]
RECURSIVE Reversed(_)
Reversed(b) == IF b = <<>> THEN <<>> ELSE Append(Reversed(Tail(b)), Head(b))

\* two different payload bytes change places
SwapPayload(i, j) ==
  /\ Untouched
  /\ 16 <= i /\ i < j /\ j < Len(orig)
  /\ orig[i + 1] # orig[j + 1]
  /\ wire' = SwapBytes(orig, i, j)
  /\ edit' = Edit("swap", i, j)
  /\ UNCHANGED <<marshaller, sent, orig, result, phase>>
  /\ MarshalFrame

\* the payload arrives back to front
ReversePayload ==
  /\ Untouched
  /\ Reversed(Slice(orig, 16, Len(orig))) # Slice(orig, 16, Len(orig))
  /\ wire' = Slice(orig, 0, 16) \o Reversed(Slice(orig, 16, Len(orig)))
  /\ edit' = Edit("reverse", 16, Len(orig) - 1)
  /\ UNCHANGED <<marshaller, sent, orig, result, phase>>
  /\ MarshalFrame

\* validate_payload(payload, checksum) is called with the payload and the
\* checksum field of the frame that arrived
ValidateWireCall ==
  /\ vpc = "idle" /\ vcall = NoCall
  /\ phase = "framed"
  /\ vcall' = [op |-> "validate_payload", data |-> Slice(wire, 16, Len(wire)),
               mode |-> "wire", expected |-> UnpackU32(wire, 8)]
  /\ vpc' = "called"
  /\ UNCHANGED <<policy, validation_count, vret, twin>>
  /\ ValFrame

PermInit ==
  /\ MarshalInit /\ marshaller \in FbInstances
  /\ TopoInit /\ CtorInit /\ ValInit({BasicPolicy}) /\ CodecInit

PermNext ==
  \/ \E data \in Inputs : Marshal(data)
  \/ \E i, j \in 16..(15 + 8 * (MaxLen + 4)) : SwapPayload(i, j)
  \/ ReversePayload
  \/ ValidateWireCall
  \/ ValidatePayloadReturn
  \/ Unmarshal

-----------------------------------------------------------------------------
(* Specifications *)

Init == MarshalInit /\ TopoInit /\ CtorInit /\ ValInit({DefaultPolicy}) /\ CodecInit

InitTopo == Init /\ marshaller \in PyInstances

InitVal ==
  /\ MarshalInit /\ marshaller \in PyInstances
  /\ TopoInit /\ CtorInit /\ ValInit(Policies) /\ CodecInit

\* one marshaller, one frame
Spec == Init /\ [][MarshalNext]_vars

\* one TopologyManager and its threads
SpecTopo == InitTopo /\ [][TopoNext]_vars

\* marshallers constructed by concurrent threads
SpecCtor == InitTopo /\ [][CtorNext]_vars

\* one SecurityValidator
SpecVal == InitVal /\ [][ValNext]_vars

\* one header, encoded and decoded
SpecCodec == InitTopo /\ [][CodecNext]_vars

\* threads that register, send heartbeats, ask for summaries and construct
\* PythonMarshallers, fairly scheduled
SpecLive == InitTopo /\ [][LiveNext]_vars /\ LiveFairness

\* one frame of the fallback marshaller, its payload reordered on the way
SpecPerm == PermInit /\ [][PermNext]_vars
-----------------------------------------------------------------------------
(* Properties of the marshallers *)

Done == phase = "done"
Header == HeaderFromBytes(wire)
Payload == Slice(wire, 16, Len(wire))

\* C1: unmarshal_data(marshal_data(v)) on the same marshaller returns exactly
\* v, for every input sequence (the empty one too) and both marshallers.
RoundTrip ==
  (Done /\ edit = NoEdit) => result = Return(sent)

RoundTripWitness ==
  /\ Done /\ edit = NoEdit
  /\ marshaller.impl = "py" /\ sent = CliTestData /\ result = Return(CliTestData)

\* C2 as stated: a frame with one payload byte changed always fails with
\* IntegrityError.
TamperDetected ==
  (Done /\ edit.kind = "tamper") => ErrorKind(result) = "IntegrityError"

\* C2 as amended: a frame with one payload byte changed fails with
\* IntegrityError, except that PythonMarshaller returns the changed values when
\* the truncated SHA-256 digest of the changed payload equals the checksum in
\* the header; the fallback marshaller always fails with IntegrityError.
TamperDetectedUnlessCollision ==
  (Done /\ edit.kind = "tamper") =>
     \/ ErrorKind(result) = "IntegrityError"
     \/ /\ marshaller.impl = "py"
        /\ result = Return(UnpackDoubles(Payload, Len(Payload) \div 8))
        /\ PyComputeChecksum(result.values) = Header.checksum

TamperWitness ==
  /\ Done /\ edit.kind = "tamper" /\ marshaller.impl = "py"
  /\ result = Raise("SecurityError", "Checksum validation failed")

\* C3 as stated: the first k bytes of a valid frame, k < 16 or
\* 16 <= k < 16 + payload_size, fail with FormatError in both marshallers.
TruncationDetected ==
  (Done /\ edit.kind = "truncate") => ErrorKind(result) = "FormatError"

\* C4: a frame of at least 16 bytes whose version is not 1 fails with
\* FormatError, also when its size and checksum are valid.
VersionRejected ==
  (Done /\ Len(wire) >= 16 /\ Header.version # U32(1)) => ErrorKind(result) = "FormatError"

VersionWitness ==
  /\ Done /\ edit.kind = "version" /\ sent = CliTestData
  /\ result.kind = "raise" /\ result.msg = "Invalid version"

\* C7: marshal_data of n values returns 16 + 8n bytes whose payload_size
\* field is 8n.
FrameLength ==
  (phase # "idle") =>
     /\ Len(orig) = 16 + 8 * Len(sent)
     /\ HeaderFromBytes(orig).payload_size = U32(8 * Len(sent))

FrameLengthWitness ==
  /\ phase = "framed" /\ sent = CliTestData /\ Len(orig) = 48

\* C9 as stated: a version-1 frame whose payload_size is not a multiple of 8,
\* with that many payload bytes, fails with FormatError.
OddSizeRejected ==
  (Done /\ edit.kind = "resize" /\ edit.at % 8 # 0) => ErrorKind(result) = "FormatError"

\* C10 as stated: unmarshal_data returns payload_size / 8 values whenever it
\* succeeds, and bytes after the payload never change its outcome, in both
\* marshallers.
PayloadSliceOnly ==
  /\ (Done /\ result.kind = "return") =>
        8 * Len(result.values) = AsLen(Header.payload_size)
  /\ (Done /\ edit.kind = "append") => result = Return(sent)

\* C19 as stated: marshal_data and unmarshal_data, succeeding or failing,
\* change no state of the marshaller instance, of any other instance or of the
\* shared id counter.
MarshalPure ==
  /\ marshaller \in PyInstances \cup FbInstances
  /\ topology_counter = 0 /\ instances = <<>>

\* C19 as amended: marshal_data and unmarshal_data change no other instance,
\* not the shared id counter and never the instance's topology_id;
\* PythonMarshaller changes nothing at all, and the fallback marshaller changes
\* only its own counters: marshal_data adds one to marshal_count, and an
\* unmarshal_data that fails one of its own checks (length, version, checksum)
\* adds one to error_count.
MarshalEffects ==
  /\ topology_counter = 0 /\ instances = <<>>
  /\ marshaller.impl = "py" => marshaller \in PyInstances
  /\ marshaller.impl = "fb" =>
       /\ [marshaller EXCEPT !.marshal_count = 0, !.error_count = 0] \in FbInstances
       /\ marshaller.marshal_count = IF phase = "idle" THEN 0 ELSE 1
       /\ marshaller.error_count =
            IF Done /\ ErrorKind(result) \in {"FormatError", "IntegrityError"} THEN 1 ELSE 0

MarshalEffectsWitness ==
  /\ Done /\ marshaller.impl = "fb"
  /\ marshaller.marshal_count = 1 /\ marshaller.error_count = 1
  /\ result = Raise("ValueError", "Checksum validation failed")

\* C22 as stated: on a fallback marshaller get_statistics().marshal_count is
\* the number of marshal_data calls that returned, get_statistics().error_count
\* is the number of unmarshal_data calls that failed, whatever the cause, and
\* neither counter ever decreases.
StatisticsCount ==
  /\ [](marshaller.impl = "fb" =>
          /\ FbGetStatistics(marshaller).marshal_count = (IF phase = "idle" THEN 0 ELSE 1)
          /\ FbGetStatistics(marshaller).error_count =
               (IF Done /\ result.kind = "raise" THEN 1 ELSE 0))
  /\ [][/\ marshaller'.marshal_count >= marshaller.marshal_count
        /\ marshaller'.error_count >= marshaller.error_count]_vars

\* the payload_size bytes after the header are there, and their checksum in
\* the marshaller's mode is not the one in the header
WrongChecksum ==
  /\ Len(wire) - 16 >= AsLen(Header.payload_size)
  /\ Header.checksum #
       ChecksumOf(marshaller.impl, Slice(wire, 16, 16 + AsLen(Header.payload_size)))

\* C23 as stated: unmarshal_data reports the first check that fails, in the
\* order length, version, truncated payload, checksum, payload_size a multiple
\* of 8: a frame of at least 16 bytes with an unsupported version fails with
\* the version FormatError whatever else is wrong with it, and a version-1
\* frame that is not truncated and has a wrong checksum fails with
\* IntegrityError, also when its payload_size is not a multiple of 8.
ChecksInOrder ==
  /\ (Done /\ Len(wire) >= 16 /\ Header.version # U32(1)) =>
        (ErrorKind(result) = "FormatError" /\ result.msg = "Invalid version")
  /\ (Done /\ Len(wire) >= 16 /\ Header.version = U32(1) /\ WrongChecksum) =>
        ErrorKind(result) = "IntegrityError"

\* C26: unmarshal_data never inspects the topology_id field.  A valid frame
\* whose bytes 12..15 are rewritten to any other value is the frame another
\* instance of the same class makes of the same values, and the instance in
\* use accepts it and returns exactly those values.
TopologyIdIgnored ==
  (Done /\ edit.kind = "topology") =>
     /\ result = Return(sent)
     /\ LET other == [marshaller EXCEPT !.topology_id = edit.to,
                                        !.marshal_count = 0, !.error_count = 0]
        IN  wire = IF marshaller.impl = "py" THEN PyMarshal(other, sent)
                   ELSE FbMarshal(other, sent)

TopologyIdIgnoredWitness ==
  /\ Done /\ edit.kind = "topology" /\ edit.to = U32(2) /\ marshaller.impl = "py"
  /\ marshaller.topology_id = U32(1) /\ Header.topology_id = U32(2)
  /\ sent = CliTestData /\ result = Return(CliTestData)

-----------------------------------------------------------------------------
(* Properties of the TopologyManager *)

Registering == {"register_id", "register_store", "register_local", "register_return"}

\* C5: the node_ids returned by N register_node calls of concurrent threads are
\* distinct; the call that acquires the lock k-th gets node_id k; and whenever
\* no registration is inside the lock, the ids returned and the keys of the
\* node table are both exactly 1..N.
TopologyUnique ==
  /\ Cardinality(returned.ids) = returned.count
  /\ \A t \in Threads :
       /\ tret[t].op = "register_node" => tret[t].value = tret[t].ticket
       /\ tpc[t] \in (Registering \ {"register_id"}) => tloc[t].node_id = tloc[t].ticket
  /\ (\A t \in Threads : tpc[t] \notin Registering) =>
       /\ returned.ids = 1..returned.count
       /\ DOMAIN nodes = 1..returned.count

TopologyUniqueWitness ==
  /\ returned.count = 3 /\ returned.ids = {1, 2, 3} /\ DOMAIN nodes = {1, 2, 3}
  /\ \A t \in Threads : tpc[t] = "idle" /\ tret[t].op = "register_node"

\* C16: whenever no registration is inside the lock, the local node id is
\* unset exactly when the node table is empty; it is never anything but unset
\* or 1, the id of the first registration; and once set, no step of any
\* method changes it.
LocalIdentity ==
  /\ []((\A t \in Threads : tpc[t] \notin Registering) =>
           (local_node_id = None <=> DOMAIN nodes = {}))
  /\ [](local_node_id \in {None, Some(1)})
  /\ [][local_node_id # None => local_node_id' = local_node_id]_vars

LocalIdentityWitness ==
  /\ local_node_id = Some(1) /\ DOMAIN nodes = {1, 2}
  /\ \E t \in Threads : tret[t] = Returned("get_local_node_id", Some(1), 0)

InHeartbeat == {"heartbeat", "heartbeat_update", "heartbeat_return"}

\* C17: no step of update_heartbeat changes the keys of the node table, the
\* local node id, or any field of any node but last_heartbeat of the node it
\* was called for; with an unknown id it changes nothing of the registry, and
\* it returns None.
HeartbeatFrame ==
  [][\A t \in Threads :
       (tpc[t] \in InHeartbeat /\ tpc'[t] # tpc[t]) =>
          /\ local_node_id' = local_node_id
          /\ DOMAIN nodes' = DOMAIN nodes
          /\ \A id \in DOMAIN nodes :
               IF id = targ[t].node_id
               THEN nodes'[id] = [nodes[id] EXCEPT !.last_heartbeat = nodes'[id].last_heartbeat]
               ELSE nodes'[id] = nodes[id]
          /\ targ[t].node_id \notin DOMAIN nodes => nodes' = nodes
          /\ tpc'[t] = "idle" => tret'[t] = Returned("update_heartbeat", None, 0)]_vars

HeartbeatFrameWitness ==
  /\ DOMAIN nodes = {1}
  /\ \E t \in Threads : tpc[t] = "heartbeat_return" /\ targ[t].node_id = 2
  /\ \E t \in Threads : tret[t].op = "update_heartbeat"

InLock ==
  Registering \cup {"heartbeat_update", "heartbeat_return", "summary_count", "summary_return"}

\* C18: at most one thread is inside the lock-guarded sections of
\* register_node, update_heartbeat and get_topology_summary; while a summary
\* runs the registry does not change, and the summary it returns is the
\* registry's at that instant: the number of nodes, the number of ACTIVE ones,
\* and the local node id, unset exactly when there is no node.
SummarySnapshot ==
  /\ [](Cardinality({t \in Threads : tpc[t] \in InLock}) <= 1)
  /\ [][\A t \in Threads :
          /\ tpc[t] \in {"summary_count", "summary_return"} =>
               (nodes' = nodes /\ local_node_id' = local_node_id)
          /\ (tpc[t] = "summary_return" /\ tpc'[t] = "idle") =>
               /\ tret'[t].op = "get_topology_summary"
               /\ tret'[t].value =
                    [total_nodes |-> Cardinality(DOMAIN nodes),
                     active_nodes |->
                       Cardinality({id \in DOMAIN nodes : nodes[id].state = "ACTIVE"}),
                     local_node_id |-> local_node_id]
               /\ (local_node_id = None <=> DOMAIN nodes = {})]_vars

SummarySnapshotWitness ==
  \E t \in Threads :
    tret[t] = Returned("get_topology_summary",
                       [total_nodes |-> 2, active_nodes |-> 2, local_node_id |-> Some(1)], 0)

\* C24: every registered node has state ACTIVE and marshal_operations 0 in
\* every reachable state, and every get_topology_summary result has
\* active_nodes equal to total_nodes.
OnlyActive ==
  /\ \A id \in DOMAIN nodes :
       nodes[id].state = "ACTIVE" /\ nodes[id].marshal_operations = 0
  /\ \A t \in Threads :
       /\ tpc[t] = "summary_return" => tloc[t].active_count = Cardinality(DOMAIN nodes)
       /\ tret[t].op = "get_topology_summary" =>
            tret[t].value.active_nodes = tret[t].value.total_nodes

OnlyActiveWitness ==
  /\ DOMAIN nodes = {1} /\ nodes[1].last_heartbeat = 1
  /\ \E t \in Threads :
       /\ tret[t].op = "get_topology_summary"
       /\ tret[t].value.total_nodes = 1 /\ tret[t].value.active_nodes = 1

-----------------------------------------------------------------------------
(* Properties of marshaller construction *)

Constructed(i) == instances[i].topology_id # None

\* C6 as stated: no two marshaller instances of one class ever hold the same
\* topology_id, whatever the interleaving of their constructions.
DistinctTopologyIds ==
  \A i, j \in DOMAIN instances :
    (i # j /\ instances[i].impl = instances[j].impl /\ Constructed(i) /\ Constructed(j))
      => instances[i].topology_id # instances[j].topology_id

\* C20 as stated: the topology_id a marshaller is given at construction is the
\* node_id of a node registered in the Topology Manager.
TopologyIdFromManager ==
  \A i \in DOMAIN instances :
    Constructed(i) => instances[i].topology_id \in {Some(U32(id)) : id \in DOMAIN nodes}

-----------------------------------------------------------------------------
(* Properties of the SecurityValidator *)

\* validate_payload has returned, and the checksum it was given was computed
\* in the other mode than the one its policy verifies
ModeMismatch ==
  /\ vpc = "idle" /\ vcall.op = "validate_payload"
  /\ \/ vcall.mode = "fb" /\ policy.level \in {"STANDARD", "ENHANCED"}
     \/ vcall.mode = "py" /\ policy.level = "BASIC"

\* C8 as stated: validate_payload returns INVALID_CHECKSUM for every payload
\* whose checksum was computed in fast mode when the policy is STANDARD or
\* ENHANCED, and for every payload whose checksum was computed in strong mode
\* when the policy is BASIC.
ModeMismatchRejected ==
  ModeMismatch => vret = "INVALID_CHECKSUM"

\* C8 as amended: such a payload is rejected with INVALID_CHECKSUM unless its
\* byte sum equals the little-endian 32-bit value of the first four bytes of
\* its SHA-256 digest; then the two modes give one checksum and
\* validate_payload returns VALID under every policy.
ModeMismatchRejectedUnlessEqual ==
  ModeMismatch =>
    IF ChecksumOf("fb", vcall.data) = ChecksumOf("py", vcall.data)
    THEN vret = "VALID"
    ELSE vret = "INVALID_CHECKSUM"

ModeMismatchWitness ==
  /\ ModeMismatch /\ vcall.mode = "fb" /\ policy.level = "STANDARD"
  /\ vcall.data = PackDoubles(CliTestData) /\ vret = "INVALID_CHECKSUM"

\* C12: validate_header returns VALID exactly when its input is 16 bytes long
\* and starts with the little-endian version 1, INVALID_FORMAT otherwise;
\* payload_size, checksum and topology_id play no part.
HeaderValidity ==
  (vpc = "idle" /\ vcall.op = "validate_header") =>
     vret = IF Len(vcall.data) = 16 /\ SubSeq(vcall.data, 1, 4) = <<1, 0, 0, 0>>
            THEN "VALID" ELSE "INVALID_FORMAT"

HeaderValidityWitness ==
  /\ vpc = "idle" /\ vcall.op = "validate_header" /\ vret = "VALID"
  /\ vcall.data = <<1, 0, 0, 0, 3, 0, 0, 0, 255, 255, 255, 255, 7, 0, 0, 0>>

\* C13: validate_payload returns VALID exactly when the expected checksum is
\* the digest of the policy level: the byte sum modulo 2^32 under BASIC, the
\* first four bytes of SHA-256 as a little-endian number under STANDARD and
\* under ENHANCED; otherwise it returns INVALID_CHECKSUM.
PayloadValidity ==
  (vpc = "idle" /\ vcall.op = "validate_payload") =>
     LET digest == ChecksumOf(IF policy.level = "BASIC" THEN "fb" ELSE "py", vcall.data)
     IN  vret = IF vcall.expected = digest THEN "VALID" ELSE "INVALID_CHECKSUM"

PayloadValidityWitness ==
  /\ vpc = "idle" /\ vcall.op = "validate_payload" /\ policy.level = "ENHANCED"
  /\ vcall.mode = "py" /\ vcall.data = PackDoubles(CliTestData) /\ vret = "VALID"

\* C14 as stated: every validate_header call and every validate_payload call
\* adds one to the validation counter.
EveryValidationCounted ==
  [][(vpc = "called" /\ vpc' = "idle") => validation_count' = validation_count + 1]_vars

\* C15: two validators whose policies differ only in max_age_seconds, given
\* the same calls, return the same results and hold the same validation_count.
MaxAgeIgnored ==
  /\ twin.policy.level = policy.level
  /\ twin.policy.max_age_seconds # policy.max_age_seconds
  /\ twin.vret = vret
  /\ twin.validation_count = validation_count

MaxAgeIgnoredWitness ==
  /\ vpc = "idle" /\ vcall.op = "validate_payload" /\ vret = "VALID" /\ twin.vret = "VALID"
  /\ validation_count = 2 /\ twin.policy.max_age_seconds = 0 /\ policy.max_age_seconds = 3600

\* C25: validation_count starts at 0 and a call adds one to it exactly when
\* it is a validate_header call that returns VALID; a validate_header call
\* that returns INVALID_FORMAT, every validate_payload call and get_statistics
\* leave it unchanged, and no call changes the policy.  So the counter is the
\* number of validate_header calls that returned VALID, and get_statistics
\* reports it.
ValidHeadersCounted ==
  /\ [](vcall = NoCall => validation_count = 0)
  /\ [](vcall.op = "get_statistics" => vret.validation_count = validation_count)
  /\ [][/\ policy' = policy
        /\ validation_count' =
             IF vpc = "called" /\ vcall.op = "validate_header" /\ vret' = "VALID"
             THEN validation_count + 1 ELSE validation_count]_vars

ValidHeadersCountedWitness ==
  /\ vpc = "idle" /\ vcall.op = "validate_header" /\ vret = "INVALID_FORMAT"
  /\ vcall.data = <<>> /\ validation_count = 1

-----------------------------------------------------------------------------
(* Properties of the additive checksum *)

Permuted == edit.kind \in {"swap", "reverse"}

\* C27: a frame of the fallback marshaller whose payload bytes are reordered,
\* header unchanged, has the byte sum modulo 2^32 that its header states;
\* unmarshal_data accepts it without a checksum error and returns the values
\* the reordered bytes encode, and validate_payload under a BASIC policy
\* returns VALID for it.
PermutationAccepted ==
  /\ Permuted =>
       /\ Slice(wire, 0, 16) = Slice(orig, 0, 16)
       /\ Mask32(SumBytes(Payload)) = Mask32(SumBytes(Slice(orig, 16, Len(orig))))
       /\ Mask32(SumBytes(Payload)) = Header.checksum
  /\ (Permuted /\ Done) => result = Return(UnpackDoubles(Payload, Len(Payload) \div 8))
  /\ (Permuted /\ vpc = "idle" /\ vcall.op = "validate_payload"
        /\ vcall.data = Payload /\ policy.level = "BASIC") => vret = "VALID"

PermutationAcceptedWitness ==
  /\ Done /\ edit.kind = "swap" /\ marshaller.impl = "fb" /\ sent = CliTestData
  /\ result.kind = "return" /\ result.values # sent
  /\ vpc = "idle" /\ vcall.op = "validate_payload" /\ vcall.data = Payload
  /\ policy.level = "BASIC" /\ vret = "VALID"

-----------------------------------------------------------------------------
(* Properties of the header codec *)

\* C11 as stated: MarshalHeader.from_bytes fails with FormatError on every
\* input that is not exactly 16 bytes long, shorter or longer, and on 16 bytes
\* returns the four fields to_bytes wrote.
HeaderDecodeStrict ==
  (hphase = "decoded") =>
     IF Len(hbytes) = 16 THEN hresult = Return(hfields)
     ELSE ErrorKind(hresult) = "FormatError"

-----------------------------------------------------------------------------
(* Properties of the locks *)

InCounterLock == {"py_read", "py_write", "py_assign"}

\* C21: under fair scheduling every register_node, update_heartbeat and
\* get_topology_summary call and every PythonMarshaller construction that a
\* thread has started eventually returns; and a lock is held only by a thread
\* that is inside the section it guards, so no lock is left held.
CallsReturn ==
  /\ \A t \in Threads : (tpc[t] # "idle") ~> (tpc[t] = "idle")
  /\ \A t \in Threads : (cpc[t] # "idle") ~> (cpc[t] = "idle")
  /\ [](lock # Free => tpc[lock] \in InLock)
  /\ [](counter_lock # Free => cpc[counter_lock] \in InCounterLock)
  /\ []((\A t \in Threads : ThreadFree(t)) => (lock = Free /\ counter_lock = Free))

\* two registrations started by two threads have both returned
CallsReturnWitness ==
  /\ \A t \in Threads : ThreadFree(t)
  /\ lock = Free /\ counter_lock = Free
  /\ returned.count = 2
  /\ \E t, u \in Threads :
       /\ t # u
       /\ tret[t] = Returned("register_node", 1, 1)
       /\ tret[u] = Returned("register_node", 2, 2)

====
